---- MODULE Spec2Model ----
(***************************************************************************)
(* Model of homebridge-somfy-protect: the adaptive polling scheduler of    *)
(* SomfyProtectPlatform, the token lifecycle manager SomfyProtectAuth and  *)
(* the 401/retry handling of SomfyProtectApi.                              *)
(*                                                                         *)
(* PollSpec  : platform.ts  (discoverSites, startPolling, pollStatus, ...) *)
(* AuthSpec  : auth.ts      (getAccessToken, refreshToken, forceRefresh)   *)
(* ApiSpec   : api.ts       (request/response interceptors, axios-retry)   *)
(* AccessorySpec, SetSpec : alarmAccessory.ts (reads, writes, updates)     *)
(* DiscoverySpec, ShutdownSpec : platform.ts driven by the host's events   *)
(* HttpSpec  : httpServer.ts (the request handler of HttpApiServer)        *)
(*                                                                         *)
(* Time is in milliseconds, as returned by Date.now().                     *)
(***************************************************************************)
EXTENDS Integers, Sequences, FiniteSets, TLC

\* ---------------------------------------------------------------- bounds
MaxSites      == 2      \* sites returned by getSites
MaxTimers     == 2      \* timer handles the runtime can hand out
MaxClockSteps == 3      \* clock advances in one behaviour
PollClockStep == 30000  \* granularity of the clock in PollSpec
StartTime     == 100000 \* Date.now() when the platform is constructed

\* ------------------------------------------------- program constants
INITIAL_INTERVAL      == 10000
FAST_INTERVAL         == 5000
FAST_POLLING_DURATION == 60000
STALENESS_THRESHOLD   == 60000
DISCOVERY_RETRY_DELAY == 60000

Levels  == {"disarmed", "armed", "partial"}
NoLevel == "none"       \* previousStates.get(id) === undefined
NoTimer == 0            \* pollingInterval === undefined

VARIABLES
    now,              \* Date.now()
    clockSteps,       \* number of clock advances so far
    adaptive,         \* config.adaptivePolling !== false
    discovery,        \* progress of discoverSites
    retryAt,          \* when the timeout last set by discoverSites is due (0 = never set)
    accessories,      \* site ids in registration order
    pollingInterval,  \* handle stored in this.pollingInterval, or NoTimer
    timers,           \* live setInterval timers: handle -> interval (0 = none)
    lastStateChange,  \* this.lastStateChange
    previousStates,   \* this.previousStates
    isFastPolling,    \* this.isFastPolling
    ticks,            \* pollStatus invocations: 0 = not running, i = awaiting getSite of accessories[i]
    published,        \* per running tick: indexes whose siteUpdated event it has emitted
    pollOp,           \* the scheduler step that was taken last
    listeners,        \* handlers registered for 'siteUpdated' on platform.events
    instance,         \* the SomfyProtectAlarmAccessory of site OwnSite
    shutdown,         \* homebridge has emitted 'shutdown'
    readOp,           \* the HomeKit read in progress on that accessory
    setOp,            \* the setTargetState call in progress on that accessory
    http,             \* HttpApiServer: its token and the request being served
    token,            \* SomfyProtectAuth.token (NoToken = null)
    disk,             \* the file at tokenPath
    issued,           \* number of credentials the token endpoint has issued
    callers,          \* getAccessToken / forceRefresh invocations
    saveFailed,       \* the last saveToken() logged 'Failed to save token'
    lastClear,        \* whether the last token-manager operation was clearToken
    api               \* the client operation in progress

busVars == <<listeners, instance, shutdown, readOp, setOp, http>>

pollVars == <<adaptive, discovery, retryAt, accessories, pollingInterval, timers,
              lastStateChange, previousStates, isFastPolling, ticks,
              published, pollOp, busVars>>

authVars == <<token, disk, issued, callers, saveFailed, lastClear>>

apiVars == <<api>>

vars == <<now, clockSteps, pollVars, authVars, apiVars>>

\* the pollStatus invocations the model follows at once: one in flight and
\* one started on top of it by the timer or by restartPolling
TickIds  == {1, 2}
TimerIds == 1..MaxTimers
SiteIds  == 1..MaxSites

\* ------------------------------------------------------------ helpers
Min(S) == CHOOSE x \in S : \A y \in S : x <= y

FreeTicks(tk)  == {t \in TickIds : tk[t] = 0}
FreeTimers(tm) == {h \in TimerIds : tm[h] = 0}
LiveTimers     == {h \in TimerIds : timers[h] # 0}

NoOp == [op |-> "none", site |-> 0, level |-> NoLevel, changed |-> FALSE,
         wasFast |-> FALSE, restarted |-> FALSE, threw |-> FALSE,
         emits |-> 0, delivered |-> 0]

\* the pollOp record of the step `name`
Op(name) == [NoOp EXCEPT !.op = name]

\* ------------------------------------------------ platform: pure parts

\* fastDuration / intervals as read from the (unset) config with their defaults
FastDuration == FAST_POLLING_DURATION
FastInterval == FAST_INTERVAL
BaseInterval == INITIAL_INTERVAL

\* variant of getPollingInterval: the fast interval when adaptive is disabled
getPollingInterval_FastWhenOff(t, lsc) ==
    IF ~adaptive THEN FastInterval
    ELSE IF t - lsc < FastDuration THEN FastInterval
    ELSE BaseInterval

\* getPollingInterval(), evaluated at time t with this.lastStateChange = lsc
getPollingInterval(t, lsc) ==
    IF ~adaptive THEN BaseInterval
    ELSE IF t - lsc < FastDuration THEN FastInterval
    ELSE BaseInterval

\* variant of AlreadyPolling: the guard is missing
AlreadyPolling_Never(pi) == FALSE

\* startPolling: `if (this.pollingInterval) return;`
AlreadyPolling(pi) == pi # NoTimer

\* variant of LevelChanged: the `previousState &&` test is missing
LevelChanged_NoPrevCheck(prev, cur) == prev # cur

\* pollStatus: `previousState && previousState !== currentState`
LevelChanged(prev, cur) == prev # NoLevel /\ prev # cur

\* variant of FastWindowOver: the fast window never ends
FastWindowOver_Never(t, lsc) == FALSE

\* variants of FastWindowOver: a strict comparison; half the window
FastWindowOver_Strict(t, lsc) == t - lsc > FastDuration

FastWindowOver_Half(t, lsc) == 2 * (t - lsc) >= FastDuration

\* pollStatus: `timeSinceChange >= fastDuration`
FastWindowOver(t, lsc) == t - lsc >= FastDuration

\* variant of onPollError: the catch block stops the loop and rethrows
onPollError_Stops(pi, tm) ==
    [pi |-> NoTimer, tm |-> [h \in TimerIds |-> 0], threw |-> TRUE]

\* pollStatus: the catch block logs 'Polling error (will retry)' and returns;
\* it touches neither the timer nor the cadence and does not rethrow
onPollError(pi, tm) == [pi |-> pi, tm |-> tm, threw |-> FALSE]

\* pollStatus() up to its first await: the loop issues getSite for the
\* first accessory; with no accessory the invocation ends at once.
pollStatusBegin(acc, tk) ==
    IF Len(acc) = 0 THEN tk
    ELSE [tk EXCEPT ![Min(FreeTicks(tk))] = 1]

\* startPolling(): guard, setInterval at getPollingInterval(), immediate poll
startPolling(acc, pi, tm, tk, lsc) ==
    IF AlreadyPolling(pi)
    THEN [pi |-> pi, tm |-> tm, tk |-> tk]
    ELSE LET h == Min(FreeTimers(tm))
         IN [pi |-> h,
             tm |-> [tm EXCEPT ![h] = getPollingInterval(now, lsc)],
             tk |-> pollStatusBegin(acc, tk)]

\* restartPolling(): clearInterval, then startPolling()
restartPolling(acc, pi, tm, tk, lsc) ==
    IF pi # NoTimer
    THEN startPolling(acc, NoTimer, [tm EXCEPT ![pi] = 0], tk, lsc)
    ELSE startPolling(acc, pi, tm, tk, lsc)

\* resources the model needs for startPolling to run to completion
CanStart(acc, pi, tm, tk) ==
    AlreadyPolling(pi) \/
        (FreeTimers(tm) # {} /\ (Len(acc) = 0 \/ FreeTicks(tk) # {}))

CanRestart(acc, pi, tm, tk) ==
    IF pi # NoTimer THEN CanStart(acc, NoTimer, [tm EXCEPT ![pi] = 0], tk)
    ELSE CanStart(acc, pi, tm, tk)

\* variant of retryTimeout: the retry is due after half the delay
retryTimeout_Half(t) == t + DISCOVERY_RETRY_DELAY \div 2

\* discoverSites catch: `setTimeout(() => this.discoverSites(), 60000)` at
\* time t: when the timeout is due
retryTimeout(t) == t + DISCOVERY_RETRY_DELAY

\* variant of Publishes: an event is emitted only for a changed level
Publishes_OnChange(changed, restarted) == changed

\* pollStatus: the emit after the `if (adaptiveEnabled)` block is reached on
\* every path through the block
Publishes(changed, restarted) == TRUE

\* -------------------------------------------------- accessory: pure parts

\* the accessory instance the model follows is the one of the first site
OwnSite == Min(SiteIds)

\* security_level of the sites in the getSites response
DiscoveredLevel == "disarmed"

\* security_level values in the getSite responses of the polling loop
PolledLevels == {"disarmed", "armed"}

somfyToHomekitCurrentState(level) ==
    CASE level = "armed"    -> "AWAY_ARM"
      [] level = "partial"  -> "STAY_ARM"
      [] level = "disarmed" -> "DISARMED"
      [] OTHER              -> "DISARMED"

somfyToHomekitTargetState(level) ==
    CASE level = "armed"    -> "AWAY_ARM"
      [] level = "partial"  -> "STAY_ARM"
      [] level = "disarmed" -> "DISARM"
      [] OTHER              -> "DISARM"

\* no accessory instance has been constructed for OwnSite
NoInstance == [site |-> 0, level |-> NoLevel, lastUpdate |-> 0,
               isReachable |-> TRUE, current |-> "none", target |-> "none",
               fault |-> "NO_FAULT", destroyed |-> FALSE]

\* the function object `this.handleSiteUpdate.bind(this)` made by the
\* instance of site s in `place`: every bind yields a new function
Handler(s, place) == [inst |-> s, bound |-> place]

\* EventEmitter.removeListener: listeners are compared by identity
removeListener(ls, h) == ls \ {h}

\* updateCharacteristics(): both state characteristics follow context.site
updateCharacteristics(inst) ==
    [inst EXCEPT !.current = somfyToHomekitCurrentState(inst.level),
                 !.target  = somfyToHomekitTargetState(inst.level)]

\* the constructor, up to the subscription: context.site is the site given
\* by registerSite, context.lastUpdate is not set
newAccessory(s, level) ==
    updateCharacteristics([NoInstance EXCEPT !.site = s, !.level = level])

\* variant of handleSiteUpdate: the site id of the event is not compared
handleSiteUpdate_AnySite(inst, siteId, level, t) ==
    [updateCharacteristics([inst EXCEPT !.level = level, !.lastUpdate = t])
       EXCEPT !.isReachable = TRUE, !.fault = "NO_FAULT"]

\* handleSiteUpdate(siteId, updatedSite) at time t
handleSiteUpdate(inst, siteId, level, t) ==
    IF siteId = inst.site
    THEN [updateCharacteristics([inst EXCEPT !.level = level,
                                             !.lastUpdate = t])
            EXCEPT !.isReachable = TRUE, !.fault = "NO_FAULT"]
    ELSE inst

\* events.emit('siteUpdated', siteId, site) as seen by the instance: its
\* handler runs if the function registered by its constructor is still on
\* the bus
emit(ls, inst, siteId, level, t) ==
    IF Handler(inst.site, "constructor") \in ls
    THEN handleSiteUpdate(inst, siteId, level, t)
    ELSE inst

\* variant of isStale: an update exactly STALENESS_THRESHOLD old is stale
isStale_AtThreshold(inst, t) ==
    inst.lastUpdate = 0 \/ t - inst.lastUpdate >= STALENESS_THRESHOLD

\* `!lastUpdate || (Date.now() - lastUpdate > this.STALENESS_THRESHOLD)`
isStale(inst, t) ==
    inst.lastUpdate = 0 \/ t - inst.lastUpdate > STALENESS_THRESHOLD

\* getCurrentState() at time t: the instance afterwards and the outcome
getCurrentState(inst, t) ==
    IF isStale(inst, t)
    THEN [inst |-> [inst EXCEPT !.isReachable = FALSE,
                                !.fault = "GENERAL_FAULT"],
          raised |-> TRUE, value |-> "none"]
    ELSE [inst |-> [inst EXCEPT !.isReachable = TRUE],
          raised |-> FALSE,
          value |-> somfyToHomekitCurrentState(inst.level)]

\* getStatusFault() at time t
getStatusFault(inst, t) ==
    IF isStale(inst, t) \/ ~inst.isReachable
    THEN "GENERAL_FAULT" ELSE "NO_FAULT"


\* destroy(): removeListener is given a function bound in destroy itself
destroy(ls, s) == removeListener(ls, Handler(s, "destroy"))

\* the shutdown handler's loop over accessoryInstances, first k instances
RECURSIVE destroyEach(_, _, _)
destroyEach(ls, acc, k) ==
    IF k = 0 THEN ls ELSE destroyEach(destroy(ls, acc[k]), acc, k - 1)

\* EventEmitter.removeAllListeners()
removeAllListeners(ls) == {}

\* no HomeKit read is in progress
NoRead == [op |-> "none", raised |-> FALSE, value |-> "none"]

\* validValues of SecuritySystemTargetState: what HomeKit can write
TargetStates == {"STAY_ARM", "AWAY_ARM", "DISARM"}

\* variant of homekitToSomfyLevel: STAY_ARM is sent as 'armed'
homekitToSomfyLevel_StayAsArmed(state) ==
    CASE state = "AWAY_ARM" -> "armed"
      [] state = "STAY_ARM" -> "armed"
      [] state = "DISARM"   -> "disarmed"
      [] OTHER              -> "disarmed"

\* homekitToSomfyLevel(state)
homekitToSomfyLevel(state) ==
    CASE state = "AWAY_ARM" -> "armed"
      [] state = "STAY_ARM" -> "partial"
      [] state = "DISARM"   -> "disarmed"
      [] OTHER              -> "disarmed"

\* setTargetState(), after `await this.api.setSecurityLevel(...)` resolved:
\* the cached level becomes the level sent and the current-state
\* characteristic is set to its mapping
setTargetStateOk(inst, targetLevel) ==
    [inst   |-> [inst EXCEPT !.level = targetLevel,
                             !.current = somfyToHomekitCurrentState(targetLevel)],
     raised |-> FALSE]

\* variant of setTargetStateFailed: the cache is updated before the revert
setTargetStateFailed_Optimistic(inst, targetLevel) ==
    [inst   |-> [inst EXCEPT !.level = targetLevel,
                             !.target = somfyToHomekitTargetState(targetLevel)],
     raised |-> TRUE]

\* setTargetState(), catch block: the target-state characteristic is set to
\* the mapping of the cached level, then HapStatusError is thrown
setTargetStateFailed(inst, targetLevel) ==
    [inst   |-> [inst EXCEPT !.target = somfyToHomekitTargetState(inst.level)],
     raised |-> TRUE]

\* no setTargetState call is in progress
\* `inflight` names, once the call has succeeded, the pollStatus invocations
\* whose getSite was issued before the call completed and is still awaited
NoSet == [pc |-> "idle", value |-> "none", level |-> NoLevel,
          before |-> NoLevel, remote |-> "none", raised |-> FALSE,
          inflight |-> {}]

\* ------------------------------------------------- http server: pure parts

\* `token: string | undefined` of the constructor
Undefined == "undefined"

\* values of the Authorization header of a request (Undefined: no header)
AuthHeaders == {Undefined, "Bearer s3cret", "Bearer other", "bearer s3cret",
                "s3cret", "Bearer ", "Bearer s3cret "}

HttpTokens  == {Undefined, "", "s3cret"}
HttpMethods == {"POST", "GET", "OPTIONS"}
HttpUrls    == {"/disarm", "/disarm/", "/disarm?now=1", "/"}

NoRequest == [method |-> "none", url |-> "none", auth |-> Undefined]

\* the server as constructed, with no request being served
NoHttp == [token |-> Undefined, req |-> NoRequest, status |-> 0,
           calls |-> 0, pc |-> "idle"]

\* `if (this.token)`: undefined and the empty string are falsy
Truthy(str) == str # Undefined /\ str # ""

\* variant of Authorized: a request without Authorization header passes
Authorized_MissingPasses(tok, auth) ==
    ~(auth # Undefined /\ auth # "Bearer " \o tok)

\* the negation of `!authHeader || authHeader !== \`Bearer ${this.token}\``
Authorized(tok, auth) == ~(~Truthy(auth) \/ auth # "Bearer " \o tok)

\* the request handler up to the point where it has answered or has called
\* disarmCallback(): the status written (0: none yet) and whether the
\* callback was called
handleRequest(tok, req) ==
    IF req.method = "OPTIONS"
    THEN [status |-> 200, called |-> FALSE]
    ELSE IF req.method = "POST" /\ req.url = "/disarm"
    THEN IF Truthy(tok) /\ ~Authorized(tok, req.auth)
         THEN [status |-> 401, called |-> FALSE]
         ELSE [status |-> 0, called |-> TRUE]
    ELSE [status |-> 404, called |-> FALSE]

\* --------------------------------------------------- platform: actions

PlatformInit ==
    /\ adaptive \in BOOLEAN
    /\ discovery = "init"
    /\ retryAt = 0
    /\ accessories = <<>>
    /\ pollingInterval = NoTimer
    /\ timers = [h \in TimerIds |-> 0]
    /\ lastStateChange = 0
    /\ previousStates = [s \in SiteIds |-> NoLevel]
    /\ isFastPolling = FALSE
    /\ ticks = [t \in TickIds |-> 0]
    /\ published = [t \in TickIds |-> {}]
    /\ pollOp = NoOp
    /\ listeners = {}
    /\ instance = NoInstance
    /\ shutdown = FALSE
    /\ readOp = NoRead
    /\ setOp = NoSet
    /\ http = NoHttp

\* homebridge emits didFinishLaunching: discoverSites() runs up to `await getSites()`
DidFinishLaunching ==
    /\ discovery = "init"
    /\ discovery' = "pending"
    /\ retryAt' = retryAt
    /\ pollOp' = Op("didFinishLaunching")
    /\ UNCHANGED <<authVars, apiVars, busVars, now, clockSteps, adaptive, accessories, pollingInterval,
                   timers, lastStateChange, previousStates, isFastPolling,
                   ticks, published>>

\* getSites() resolved with n >= 1 sites: register them, startPolling()
DiscoverOk(n) ==
    /\ discovery = "pending"
    /\ LET acc == [i \in 1..n |-> i]
           r   == startPolling(acc, pollingInterval, timers, ticks, lastStateChange)
       IN /\ CanStart(acc, pollingInterval, timers, ticks)
          /\ accessories' = acc
          /\ pollingInterval' = r.pi
          /\ timers' = r.tm
          /\ ticks' = r.tk
          /\ pollOp' = Op("discoverOk")
          /\ listeners' = listeners \cup {Handler(acc[i], "constructor") : i \in 1..n}
          /\ instance' = newAccessory(OwnSite, DiscoveredLevel)
    /\ discovery' = "done"
    /\ retryAt' = retryAt
    /\ UNCHANGED <<shutdown, readOp, setOp, http>>
    /\ UNCHANGED <<authVars, apiVars, now, clockSteps, adaptive, lastStateChange, previousStates,
                   isFastPolling, published>>

\* getSites() resolved with no site: warn and return, polling is not started
DiscoverEmpty ==
    /\ discovery = "pending"
    /\ discovery' = "done"
    /\ retryAt' = retryAt
    /\ pollOp' = Op("discoverEmpty")
    /\ UNCHANGED <<authVars, apiVars, busVars, now, clockSteps, adaptive, accessories, pollingInterval,
                   timers, lastStateChange, previousStates, isFastPolling,
                   ticks, published>>

\* getSites() rejected: setTimeout(() => this.discoverSites(), 60000)
DiscoverFail ==
    /\ discovery = "pending"
    /\ discovery' = "retry"
    /\ retryAt' = retryTimeout(now)
    /\ pollOp' = Op("discoverFail")
    /\ UNCHANGED <<authVars, apiVars, busVars, now, clockSteps, adaptive, accessories, pollingInterval,
                   timers, lastStateChange, previousStates, isFastPolling,
                   ticks, published>>

\* the retry timeout fires: discoverSites() again
DiscoverRetry ==
    /\ discovery = "retry"
    /\ now >= retryAt
    /\ discovery' = "pending"
    /\ retryAt' = retryAt
    /\ pollOp' = Op("discoverRetry")
    /\ UNCHANGED <<authVars, apiVars, busVars, now, clockSteps, adaptive, accessories, pollingInterval,
                   timers, lastStateChange, previousStates, isFastPolling,
                   ticks, published>>

\* startPolling() called on a platform whose discovery has completed
StartPolling ==
    /\ discovery = "done"
    /\ CanStart(accessories, pollingInterval, timers, ticks)
    /\ LET r == startPolling(accessories, pollingInterval, timers, ticks,
                             lastStateChange)
       IN /\ pollingInterval' = r.pi
          /\ timers' = r.tm
          /\ ticks' = r.tk
          /\ pollOp' = Op("startPolling")
    /\ UNCHANGED <<authVars, apiVars, busVars, now, clockSteps, adaptive, discovery, retryAt, accessories,
                   lastStateChange, previousStates, isFastPolling, published>>

\* stopPolling()
StopPolling ==
    /\ discovery = "done"
    /\ IF pollingInterval # NoTimer
       THEN /\ timers' = [timers EXCEPT ![pollingInterval] = 0]
            /\ pollingInterval' = NoTimer
       ELSE UNCHANGED <<timers, pollingInterval>>
    /\ pollOp' = Op("stopPolling")
    /\ UNCHANGED <<authVars, apiVars, busVars, now, clockSteps, adaptive, discovery, retryAt, accessories,
                   lastStateChange, previousStates, isFastPolling, ticks,
                   published>>

\* variant of previousStatesSet: only the first level of a site is recorded
previousStatesSet_FirstOnly(ps, adaptiveEnabled, s, lvl) ==
    IF adaptiveEnabled /\ ps[s] = NoLevel THEN [ps EXCEPT ![s] = lvl] ELSE ps

\* `this.previousStates.set(site.site_id, currentState)`, the last statement
\* of the `if (adaptiveEnabled)` block of the loop body
previousStatesSet(ps, adaptiveEnabled, s, lvl) ==
    IF adaptiveEnabled THEN [ps EXCEPT ![s] = lvl] ELSE ps

\* variant of nextFetch: the loop ends after the first accessory
nextFetch_FirstOnly(acc, i) == 0

\* `for (const [, accessory] of this.accessories)`: the position of the next
\* getSite of a tick whose fetch at position i has resolved (0: the tick ends)
nextFetch(acc, i) == IF i = Len(acc) THEN 0 ELSE i + 1

\* a live setInterval timer fires: pollStatus() runs up to its first await
TimerFire(h) ==
    /\ timers[h] # 0
    /\ Len(accessories) = 0 \/ FreeTicks(ticks) # {}
    /\ ticks' = pollStatusBegin(accessories, ticks)
    /\ pollOp' = Op("timerFire")
    /\ UNCHANGED <<authVars, apiVars, busVars, now, clockSteps, adaptive, discovery, retryAt, accessories,
                   pollingInterval, timers, lastStateChange, previousStates,
                   isFastPolling, published>>

\* getSite of tick t resolves with a site at level lvl: the loop body runs
\* (transition check, cadence decision, previousStates.set, emit) and the
\* loop goes on to the next accessory or ends.
FetchOk(t, lvl) ==
    /\ ticks[t] # 0
    /\ LET i       == ticks[t]
           s       == accessories[i]
           prev    == previousStates[s]
           changed == adaptive /\ LevelChanged(prev, lvl)
           over    == adaptive /\ ~changed /\ isFastPolling
                               /\ FastWindowOver(now, lastStateChange)
           lsc     == IF changed THEN now ELSE lastStateChange
           restart == (changed /\ ~isFastPolling) \/ over
           r       == IF restart
                      THEN restartPolling(accessories, pollingInterval,
                                          timers, ticks, lsc)
                      ELSE [pi |-> pollingInterval, tm |-> timers, tk |-> ticks]
           last    == i = Len(accessories)
       IN /\ restart => CanRestart(accessories, pollingInterval, timers, ticks)
          /\ lastStateChange' = lsc
          /\ isFastPolling' = IF changed THEN TRUE
                              ELSE IF over THEN FALSE ELSE isFastPolling
          /\ pollingInterval' = r.pi
          /\ timers' = r.tm
          /\ previousStates' = previousStatesSet(previousStates, adaptive, s, lvl)
          /\ ticks' = [r.tk EXCEPT ![t] = nextFetch(accessories, i)]
          /\ published' = [published EXCEPT
                             ![t] = IF last THEN {} ELSE published[t] \cup {i}]
          /\ instance' = IF Publishes(changed, restart)
                          THEN emit(listeners, instance, s, lvl, now)
                          ELSE instance
          /\ pollOp' = [Op("fetchOk") EXCEPT
                          !.site = s, !.level = lvl,
                          !.changed = changed, !.wasFast = isFastPolling,
                          !.restarted = restart,
                          !.emits = IF Publishes(changed, restart) THEN 1 ELSE 0,
                          !.delivered = IF Publishes(changed, restart)
                                        THEN Cardinality(listeners) ELSE 0]
    /\ setOp' = [setOp EXCEPT !.inflight = @ \ {t}]
    /\ UNCHANGED <<listeners, shutdown, readOp, http>>
    /\ UNCHANGED <<authVars, apiVars, now, clockSteps, adaptive, discovery, retryAt, accessories>>

\* getSite of tick t rejects: the exception leaves the for loop and is
\* caught by the try/catch around it ('Polling error (will retry)')
FetchFail(t) ==
    /\ ticks[t] # 0
    /\ ticks' = [ticks EXCEPT ![t] = 0]
    /\ published' = [published EXCEPT ![t] = {}]
    /\ LET e == onPollError(pollingInterval, timers)
       IN /\ pollingInterval' = e.pi
          /\ timers' = e.tm
          /\ pollOp' = [Op("fetchFail") EXCEPT
                          !.site = accessories[ticks[t]],
                          !.wasFast = isFastPolling, !.threw = e.threw]
    /\ setOp' = [setOp EXCEPT !.inflight = @ \ {t}]
    /\ UNCHANGED <<authVars, apiVars, listeners, instance, shutdown, readOp,
                   http, now, clockSteps, adaptive, discovery, retryAt,
                   accessories, lastStateChange, previousStates,
                   isFastPolling>>

\* time passes
PollClock ==
    /\ clockSteps < MaxClockSteps
    /\ clockSteps' = clockSteps + 1
    /\ now' = now + PollClockStep
    /\ pollOp' = Op("clock")
    /\ UNCHANGED <<authVars, apiVars, busVars, adaptive, discovery, retryAt, accessories, pollingInterval, timers,
                   lastStateChange, previousStates, isFastPolling, ticks,
                   published>>

\* the scheduler's variables, for the steps that leave all of them alone
schedVars == <<adaptive, discovery, retryAt, accessories, pollingInterval, timers,
               lastStateChange, previousStates, isFastPolling, ticks,
               published, pollOp>>

\* homebridge emits 'shutdown': stopPolling(), destroy() on every accessory
\* instance, events.removeAllListeners()
Shutdown ==
    /\ ~shutdown
    /\ shutdown' = TRUE
    /\ IF pollingInterval # NoTimer
       THEN /\ timers' = [timers EXCEPT ![pollingInterval] = 0]
            /\ pollingInterval' = NoTimer
       ELSE UNCHANGED <<timers, pollingInterval>>
    /\ listeners' = removeAllListeners(
                        destroyEach(listeners, accessories, Len(accessories)))
    /\ instance' = IF instance = NoInstance THEN instance
                   ELSE [instance EXCEPT !.destroyed = TRUE]
    /\ pollOp' = Op("shutdown")
    /\ UNCHANGED <<authVars, apiVars, now, clockSteps, adaptive, discovery, retryAt,
                   accessories, lastStateChange, previousStates,
                   isFastPolling, ticks, published, readOp, setOp, http>>

\* destroy() is called on the accessory instance
Destroy ==
    /\ instance # NoInstance
    /\ ~instance.destroyed
    /\ listeners' = destroy(listeners, instance.site)
    /\ instance' = [instance EXCEPT !.destroyed = TRUE]
    /\ UNCHANGED <<authVars, apiVars, now, clockSteps, schedVars, shutdown,
                   readOp, setOp, http>>

\* HomeKit reads SecuritySystemCurrentState: getCurrentState()
GetCurrentState ==
    /\ instance # NoInstance
    /\ readOp = NoRead
    /\ LET r == getCurrentState(instance, now)
       IN /\ instance' = r.inst
          /\ readOp' = [op |-> "getCurrentState", raised |-> r.raised,
                        value |-> r.value]
    /\ UNCHANGED <<authVars, apiVars, now, clockSteps, schedVars, listeners,
                   shutdown, setOp, http>>

\* HomeKit reads StatusFault: getStatusFault()
GetStatusFault ==
    /\ instance # NoInstance
    /\ readOp = NoRead
    /\ readOp' = [op |-> "getStatusFault", raised |-> FALSE,
                  value |-> getStatusFault(instance, now)]
    /\ UNCHANGED <<authVars, apiVars, now, clockSteps, schedVars, listeners,
                   instance, shutdown, setOp, http>>

\* HomeKit has the value or the error of its read
ReadReturn ==
    /\ readOp # NoRead
    /\ readOp' = NoRead
    /\ UNCHANGED <<authVars, apiVars, now, clockSteps, schedVars, listeners,
                   instance, shutdown, setOp, http>>

\* HomeKit writes SecuritySystemTargetState: setTargetState(value) runs up
\* to `await this.api.setSecurityLevel(site.site_id, targetLevel)`
SetTargetState(value) ==
    /\ instance # NoInstance
    /\ setOp = NoSet
    /\ setOp' = [NoSet EXCEPT !.pc = "sent", !.value = value,
                              !.level = homekitToSomfyLevel(value),
                              !.before = instance.level]
    /\ UNCHANGED <<authVars, apiVars, now, clockSteps, schedVars, listeners,
                   instance, shutdown, readOp, http>>

\* setSecurityLevel resolved: the rest of the try block
SetOk ==
    /\ setOp.pc = "sent"
    /\ LET r == setTargetStateOk(instance, setOp.level)
       IN /\ instance' = r.inst
          /\ setOp' = [setOp EXCEPT !.pc = "returned", !.remote = "ok",
                                    !.raised = r.raised,
                                    !.inflight = TickIds \ FreeTicks(ticks)]
    /\ UNCHANGED <<authVars, apiVars, now, clockSteps, schedVars, listeners,
                   shutdown, readOp, http>>

\* setSecurityLevel rejected: the catch block
SetFail ==
    /\ setOp.pc = "sent"
    /\ LET r == setTargetStateFailed(instance, setOp.level)
       IN /\ instance' = r.inst
          /\ setOp' = [setOp EXCEPT !.pc = "returned", !.remote = "failed",
                                    !.raised = r.raised]
    /\ UNCHANGED <<authVars, apiVars, now, clockSteps, schedVars, listeners,
                   shutdown, readOp, http>>

\* HomeKit has the result or the error of its write
SetReturn ==
    /\ setOp.pc = "returned"
    /\ setOp' = NoSet
    /\ UNCHANGED <<authVars, apiVars, now, clockSteps, schedVars, listeners,
                   instance, shutdown, readOp, http>>

\* the frame of the http server's steps
httpFrame == UNCHANGED <<authVars, apiVars, now, clockSteps, schedVars,
                         listeners, instance, shutdown, readOp, setOp>>

\* a request arrives at the server
HttpRequest(m, u, a) ==
    /\ http.pc = "idle"
    /\ LET req == [method |-> m, url |-> u, auth |-> a]
           r   == handleRequest(http.token, req)
       IN http' = [http EXCEPT !.req = req, !.status = r.status,
                               !.calls = IF r.called THEN 1 ELSE 0,
                               !.pc = IF r.called THEN "disarming"
                                      ELSE "answered"]
    /\ httpFrame

\* the promise of disarmCallback() resolves: 200
HttpDisarmOk ==
    /\ http.pc = "disarming"
    /\ http' = [http EXCEPT !.status = 200, !.pc = "answered"]
    /\ httpFrame

\* the promise of disarmCallback() rejects: 500
HttpDisarmFail ==
    /\ http.pc = "disarming"
    /\ http' = [http EXCEPT !.status = 500, !.pc = "answered"]
    /\ httpFrame

\* the response has been sent; the server waits for the next request
HttpEnd ==
    /\ http.pc = "answered"
    /\ http' = [NoHttp EXCEPT !.token = http.token]
    /\ httpFrame

\* ------------------------------------------------------ bounds (auth)
MaxTokens  == 2         \* credentials the token endpoint issues in one behaviour
MaxReplays == 2         \* 401 replays followed within one client operation
MaxAuthClock == 1       \* clock advances in one behaviour of AuthSpec

\* ------------------------------------------- program constants (auth)
TOKEN_BUFFER       == 60000
MAX_RETRY_ATTEMPTS == 3

\* the callers of the token manager: the client's interceptors and one other
Callers   == {1, 2}
ApiCaller == Min(Callers)

AuthClockStep == 1      \* granularity of the clock in AuthSpec (ms)

\* expires_in (seconds) in token-endpoint responses
ExpiresIn == {61}

\* HTTP outcomes of a token-endpoint request that is not answered 200; 0 is
\* a failure without response (error.response undefined)
TokenFailures == {400, 401, 500, 0}

NoToken == [access |-> 0, refresh |-> 0, expires_in |-> 0, issuedAt |-> 0]

Absent  == [state |-> "absent",  data |-> NoToken]
Corrupt == [state |-> "corrupt", data |-> NoToken]
Stored(tok) == [state |-> "ok", data |-> tok]

\* the credential files a run can find at start: none, an unparsable one, or
\* a record written by an earlier run (access/refresh token 1), issued so that
\* it reaches its expiry buffer 0, 1 or 2 ms after the start, or without issuedAt
InitialDisks ==
    {Absent, Corrupt} \cup
    {Stored([access |-> 1, refresh |-> r, expires_in |-> 61, issuedAt |-> at]) :
        r \in {0, 1},
        at \in {0, StartTime - 1000, StartTime - 999, StartTime - 998}}

\* lastClear when the last token-manager operation was not clearToken
NoClear == [done |-> FALSE, hadRefresh |-> FALSE, unlinkFailed |-> FALSE,
            next |-> 0]

IdleCaller == [pc |-> "idle", op |-> "none", result |-> 0, status |-> -1,
               reqs |-> 0, fallback |-> FALSE, sent |-> 0,
               typed |-> FALSE, raw |-> "none"]

\* ---------------------------------------------------- auth: pure parts

\* variant of loadToken: a file that cannot be parsed yields a token
loadToken_CorruptKept(d) ==
    IF d.state = "absent" THEN NoToken
    ELSE IF d.state = "ok" THEN d.data
    ELSE [access |-> 1, refresh |-> 1, expires_in |-> 0, issuedAt |-> 0]

\* loadToken(): the parsed file, or null when it is missing or when reading
\* or parsing it throws (state "corrupt")
loadToken(d) == IF d.state = "ok" THEN d.data ELSE NoToken

\* saveToken(): writeFileSync of the record; a failing write is logged only
saveToken(tok, d, writeOk) == IF writeOk THEN Stored(tok) ELSE d

\* variant of isTokenExpired: a strict comparison
isTokenExpired_Strict(tok, t) ==
    \/ tok = NoToken
    \/ tok.issuedAt = 0
    \/ t > (tok.issuedAt + tok.expires_in * 1000) - TOKEN_BUFFER

\* isTokenExpired() at time t
isTokenExpired(tok, t) ==
    \/ tok = NoToken
    \/ tok.issuedAt = 0
    \/ t >= (tok.issuedAt + tok.expires_in * 1000) - TOKEN_BUFFER

\* `this.token?.refresh_token`
HasRefresh(tok) == tok # NoToken /\ tok.refresh # 0

\* refreshToken() up to its first await: which grant it posts
refreshTokenGrant(tok) == IF ~HasRefresh(tok) THEN "password" ELSE "refresh"

\* variant of getAccessTokenGrant: a new credential is always acquired
\* with the password grant
getAccessTokenGrant_AlwaysPassword(tok, t) ==
    IF tok = NoToken \/ isTokenExpired(tok, t) THEN "password" ELSE "none"

\* getAccessToken() up to its first await: the grant it posts, "none" when
\* the cached token is returned
getAccessTokenGrant(tok, t) ==
    IF tok = NoToken \/ isTokenExpired(tok, t)
    THEN IF HasRefresh(tok) THEN refreshTokenGrant(tok) ELSE "password"
    ELSE "none"

\* variant of forceRefreshGrant: nothing is posted for a token that has not
\* reached its expiry buffer
forceRefreshGrant_IfExpired(tok) ==
    IF ~isTokenExpired(tok, now) THEN "none"
    ELSE IF HasRefresh(tok) THEN refreshTokenGrant(tok) ELSE "password"

\* forceRefresh() up to its first await
forceRefreshGrant(tok) ==
    IF HasRefresh(tok) THEN refreshTokenGrant(tok) ELSE "password"

\* variant of FallsBack: only 401 falls through
FallsBack_Only401(status) == status = 401

\* refreshToken catch: `status === 400 || status === 401`
FallsBack(status) == status = 400 \/ status = 401

\* `error.response?.data` of a failed request: nothing when there was no
\* response
ResponseData(status) == IF status = 0 THEN "none" ELSE "body"

\* variant of requestNewTokenFailed: the password grant is posted again
requestNewTokenFailed_Retries(cl, status) ==
    IF cl.reqs < 3
    THEN [cl EXCEPT !.reqs = @ + 1, !.status = status]
    ELSE [cl EXCEPT !.pc = "raised", !.status = status, !.typed = TRUE,
                    !.raw = ResponseData(status)]

\* requestNewToken catch: SomfyProtectApiError(message, status, response data)
requestNewTokenFailed(cl, status) ==
    [cl EXCEPT !.pc = "raised", !.status = status, !.typed = TRUE,
               !.raw = ResponseData(status)]

\* variant of refreshTokenFailed: the error thrown carries neither status
\* nor response data
refreshTokenFailed_Bare(cl, status) ==
    IF FallsBack(status)
    THEN [cl EXCEPT !.pc = "password", !.reqs = @ + 1,
                    !.status = status, !.fallback = TRUE]
    ELSE [cl EXCEPT !.pc = "raised", !.typed = TRUE]

\* refreshToken catch: 400/401 fall through to requestNewToken(), anything
\* else is thrown as SomfyProtectApiError(message, status, response data)
refreshTokenFailed(cl, status) ==
    IF FallsBack(status)
    THEN [cl EXCEPT !.pc = "password", !.reqs = @ + 1,
                    !.status = status, !.fallback = TRUE]
    ELSE [cl EXCEPT !.pc = "raised", !.status = status, !.typed = TRUE,
                    !.raw = ResponseData(status)]

\* the record built from a 200 response: `{...response.data, issuedAt: Date.now()}`
NewToken(n, exp, withRefresh) ==
    [access |-> n, refresh |-> IF withRefresh THEN n ELSE 0,
     expires_in |-> exp, issuedAt |-> now]

\* a caller that has posted `grant` (or returned the cached token)
Posted(opname, grant, tok) ==
    IF grant = "none"
    THEN [IdleCaller EXCEPT !.pc = "returned", !.op = opname,
                            !.result = tok.access]
    ELSE [IdleCaller EXCEPT !.pc = grant, !.op = opname, !.reqs = 1,
                            !.sent = IF grant = "refresh" THEN tok.refresh ELSE 0]

\* ------------------------------------------ auth: steps (auth variables)

\* getAccessToken() is called
getAccessToken(c) ==
    /\ callers[c].pc = "idle"
    /\ LET grant == getAccessTokenGrant(token, now)
       IN callers' = [callers EXCEPT ![c] = Posted("getAccessToken", grant, token)]
    /\ lastClear' = IF lastClear.done /\ lastClear.next = 0
                    THEN [lastClear EXCEPT !.next = c]
                    ELSE NoClear
    /\ UNCHANGED <<token, disk, issued, saveFailed>>

\* forceRefresh() is called
forceRefresh(c) ==
    /\ callers[c].pc = "idle"
    /\ LET grant == forceRefreshGrant(token)
       IN callers' = [callers EXCEPT ![c] = Posted("forceRefresh", grant, token)]
    /\ lastClear' = NoClear
    /\ UNCHANGED <<token, disk, issued, saveFailed>>

\* variant of granted: a failing write aborts the authentication
granted_HardFail(c, exp, withRefresh, writeOk) ==
    /\ issued < MaxTokens
    /\ LET tok == NewToken(issued + 1, exp, withRefresh)
       IN /\ token' = IF writeOk THEN tok ELSE token
          /\ disk' = saveToken(tok, disk, writeOk)
          /\ saveFailed' = ~writeOk
          /\ lastClear' = NoClear
          /\ issued' = issued + 1
          /\ callers' = [callers EXCEPT
                ![c].pc = IF writeOk THEN "returned" ELSE "raised",
                ![c].status = 200,
                ![c].result = IF writeOk THEN tok.access ELSE 0]

\* a 200 answer to the request of caller c: store, save, return to the caller
granted(c, exp, withRefresh, writeOk) ==
    /\ issued < MaxTokens
    /\ LET tok == NewToken(issued + 1, exp, withRefresh)
       IN /\ token' = tok
          /\ disk' = saveToken(tok, disk, writeOk)
          /\ saveFailed' = ~writeOk
          /\ lastClear' = NoClear
          /\ issued' = issued + 1
          /\ callers' = [callers EXCEPT ![c].pc = "returned",
                                        ![c].status = 200,
                                        ![c].result = tok.access]

\* the refresh-token grant of caller c is answered 200
refreshOk(c, exp, withRefresh, writeOk) ==
    /\ callers[c].pc = "refresh"
    /\ granted(c, exp, withRefresh, writeOk)

\* variant of refreshFail: a rejected refresh token is dropped with the
\* cached record before the password grant is posted
refreshFail_DropsToken(c, status) ==
    /\ callers[c].pc = "refresh"
    /\ callers' = [callers EXCEPT ![c] = refreshTokenFailed(@, status)]
    /\ lastClear' = NoClear
    /\ token' = IF FallsBack(status) THEN NoToken ELSE token
    /\ UNCHANGED <<disk, issued, saveFailed>>

\* the refresh-token grant of caller c fails: 400/401 fall through to
\* requestNewToken(), anything else is thrown as SomfyProtectApiError
refreshFail(c, status) ==
    /\ callers[c].pc = "refresh"
    /\ callers' = [callers EXCEPT ![c] = refreshTokenFailed(@, status)]
    /\ lastClear' = NoClear
    /\ UNCHANGED <<token, disk, issued, saveFailed>>

\* the password grant of caller c is answered 200
passwordOk(c, exp, withRefresh, writeOk) ==
    /\ callers[c].pc = "password"
    /\ granted(c, exp, withRefresh, writeOk)

\* the password grant of caller c fails: SomfyProtectApiError with the status
passwordFail(c, status) ==
    /\ callers[c].pc = "password"
    /\ callers' = [callers EXCEPT ![c] = requestNewTokenFailed(@, status)]
    /\ lastClear' = NoClear
    /\ UNCHANGED <<token, disk, issued, saveFailed>>

\* variant of clearToken: the file is unlinked, the cached token is kept
clearToken_FileOnly(unlinkOk) ==
    /\ token' = token
    /\ disk' = IF disk.state # "absent" /\ unlinkOk THEN Absent ELSE disk
    /\ lastClear' = [done |-> TRUE, hadRefresh |-> HasRefresh(token),
                     unlinkFailed |-> disk.state # "absent" /\ ~unlinkOk,
                     next |-> 0]
    /\ UNCHANGED <<issued, callers, saveFailed>>

\* clearToken(): null the token, unlink the file if it exists (a failing
\* unlink is logged)
clearToken(unlinkOk) ==
    /\ token' = NoToken
    /\ disk' = IF disk.state # "absent" /\ unlinkOk THEN Absent ELSE disk
    /\ lastClear' = [done |-> TRUE, hadRefresh |-> HasRefresh(token),
                     unlinkFailed |-> disk.state # "absent" /\ ~unlinkOk,
                     next |-> 0]
    /\ UNCHANGED <<issued, callers, saveFailed>>

\* the caller has taken its result or its error
release(c) ==
    /\ callers[c].pc \in {"returned", "raised"}
    /\ callers' = [callers EXCEPT ![c] = IdleCaller]
    /\ lastClear' = NoClear
    /\ UNCHANGED <<token, disk, issued, saveFailed>>

\* ------------------------------------------------------- auth: actions
authFrame == UNCHANGED <<now, clockSteps, pollVars, apiVars>>

GetAccessToken(c) == getAccessToken(c) /\ authFrame

ForceRefresh(c) == forceRefresh(c) /\ authFrame

RefreshOk(c, exp, withRefresh, writeOk) ==
    refreshOk(c, exp, withRefresh, writeOk) /\ authFrame

RefreshFail(c, status) == refreshFail(c, status) /\ authFrame

PasswordOk(c, exp, withRefresh, writeOk) ==
    passwordOk(c, exp, withRefresh, writeOk) /\ authFrame

PasswordFail(c, status) == passwordFail(c, status) /\ authFrame

ClearToken(unlinkOk) == clearToken(unlinkOk) /\ authFrame

Release(c) == release(c) /\ authFrame

AuthClock ==
    /\ clockSteps < MaxAuthClock
    /\ clockSteps' = clockSteps + 1
    /\ now' = now + AuthClockStep
    /\ UNCHANGED <<authVars, pollVars, apiVars>>

\* -------------------------------------------------------- api client

\* outcomes of a request sent to the remote service; 0 is a network failure
\* without response
RetryableOutcomes == {503, 0}
FailureOutcomes   == RetryableOutcomes \cup {401, 404}

\* `last` is the status of the latest answer of the remote service; `raised`
\* tells which error the caller of the operation gets: "api" is the
\* SomfyProtectApiError built from the answer, "token" the error of the
\* token manager
IdleApi == [pc |-> "idle", retryCount |-> 0, replays |-> 0, forces |-> 0,
            sent |-> 0, bearer |-> 0, status |-> -1, last |-> -1,
            raised |-> "none"]

\* variant of requestInterceptor: the header is not set
requestInterceptor_NoHeader(cfg, accessToken) == cfg

\* request interceptor: `config.headers.Authorization = `Bearer ${token}``
requestInterceptor(cfg, accessToken) == [cfg EXCEPT !.bearer = accessToken]

\* request interceptor, error handler: the error of getAccessToken is logged
\* and rethrown; the response interceptor rethrows it as it is no AxiosError
requestRejected(cfg, caller) ==
    [cfg EXCEPT !.pc = "failed", !.status = caller.status, !.raised = "token"]

\* response interceptor: `throw new SomfyProtectApiError(message, status,
\* data)` from the answer of the remote service
apiError(cfg, status) ==
    [cfg EXCEPT !.pc = "failed", !.status = status, !.last = status,
                !.raised = "api"]

\* variant of tokenRefreshFailed: the error of the token manager is thrown
tokenRefreshFailed_Rethrows(cfg, caller) == requestRejected(cfg, caller)

\* response interceptor, `catch (refreshError)`: 'Token refresh failed' is
\* logged and the error of the 401 answer is thrown
tokenRefreshFailed(cfg, caller) == apiError(cfg, cfg.last)

\* variant of ShouldRetry: client errors are retried as well
ShouldRetry_ClientErrors(status, retryCount) ==
    (status = 0 \/ status >= 400) /\ retryCount < MAX_RETRY_ATTEMPTS

\* variant of ShouldRetry: the ceiling is one retry higher
ShouldRetry_OneMore(status, retryCount) ==
    (status = 0 \/ status >= 500) /\ retryCount <= MAX_RETRY_ATTEMPTS

\* axios-retry retryCondition together with its `retries` ceiling
ShouldRetry(status, retryCount) ==
    (status = 0 \/ status >= 500) /\ retryCount < MAX_RETRY_ATTEMPTS

\* response interceptor: `if (status === 401)`
IsAuthError(status) == status = 401

\* an operation (getSites, getSite, setSecurityLevel, ...) is called: the
\* request interceptor asks the token manager for the bearer token
ApiRequest ==
    /\ api.pc = "idle"
    /\ getAccessToken(ApiCaller)
    /\ api' = [IdleApi EXCEPT !.pc = "auth"]
    /\ UNCHANGED <<now, clockSteps, pollVars>>

\* getAccessToken returned: the request goes out with `Bearer <token>`
ApiSend ==
    /\ api.pc = "auth"
    /\ callers[ApiCaller].pc = "returned"
    /\ api' = [requestInterceptor(api, callers[ApiCaller].result)
                  EXCEPT !.pc = "inflight", !.sent = @ + 1]
    /\ release(ApiCaller)
    /\ UNCHANGED <<now, clockSteps, pollVars>>

\* getAccessToken raised in the request interceptor: the error is rethrown
\* and nothing is sent
ApiAuthFailed ==
    /\ api.pc = "auth"
    /\ callers[ApiCaller].pc = "raised"
    /\ api' = requestRejected(api, callers[ApiCaller])
    /\ release(ApiCaller)
    /\ UNCHANGED <<now, clockSteps, pollVars>>

\* the remote service answers 2xx
ApiRespondOk ==
    /\ api.pc = "inflight"
    /\ api' = [api EXCEPT !.pc = "done", !.status = 200, !.last = 200]
    /\ UNCHANGED <<now, clockSteps, pollVars, authVars>>

\* a 5xx answer or a network failure below the ceiling: axios-retry sends
\* the request again, through the request interceptor
ApiRetry(status) ==
    /\ api.pc = "inflight"
    /\ ShouldRetry(status, api.retryCount)
    /\ getAccessToken(ApiCaller)
    /\ api' = [api EXCEPT !.pc = "auth", !.retryCount = @ + 1,
                          !.last = status]
    /\ UNCHANGED <<now, clockSteps, pollVars>>

\* any failure that is neither retried nor a 401: the response interceptor
\* throws SomfyProtectApiError with the status
ApiFail(status) ==
    /\ api.pc = "inflight"
    /\ ~ShouldRetry(status, api.retryCount)
    /\ ~IsAuthError(status)
    /\ api' = apiError(api, status)
    /\ UNCHANGED <<now, clockSteps, pollVars, authVars>>

\* a 401 answer: the response interceptor awaits forceRefresh()
ApiUnauthorized(status) ==
    /\ api.pc = "inflight"
    /\ IsAuthError(status)
    /\ forceRefresh(ApiCaller)
    /\ api' = [api EXCEPT !.pc = "forcing", !.forces = @ + 1,
                          !.last = status]
    /\ UNCHANGED <<now, clockSteps, pollVars>>

\* forceRefresh() returned: the interceptor awaits getAccessToken()
ApiForced ==
    /\ api.pc = "forcing"
    /\ callers[ApiCaller].pc = "returned"
    /\ callers' = [callers EXCEPT ![ApiCaller] =
            Posted("getAccessToken", getAccessTokenGrant(token, now), token)]
    /\ api' = [api EXCEPT !.pc = "reauth"]
    /\ UNCHANGED <<now, clockSteps, pollVars, token, disk, issued, saveFailed,
                   lastClear>>

\* forceRefresh() or the getAccessToken() after it raised: 'Token refresh
\* failed' is logged and the error of the 401 response is thrown
ApiForceFailed ==
    /\ api.pc \in {"forcing", "reauth"}
    /\ callers[ApiCaller].pc = "raised"
    /\ api' = tokenRefreshFailed(api, callers[ApiCaller])
    /\ release(ApiCaller)
    /\ UNCHANGED <<now, clockSteps, pollVars>>

\* getAccessToken() returned: `return this.axios.request(error.config)`; the
\* replay is a request of the same axios instance, so it passes the request
\* interceptor and, when answered, the response interceptor again
ApiReplay ==
    /\ api.pc = "reauth"
    /\ callers[ApiCaller].pc = "returned"
    /\ api.replays < MaxReplays
    /\ callers' = [callers EXCEPT ![ApiCaller] =
            Posted("getAccessToken", getAccessTokenGrant(token, now), token)]
    /\ api' = [requestInterceptor(api, callers[ApiCaller].result)
                  EXCEPT !.pc = "auth", !.replays = @ + 1]
    /\ UNCHANGED <<now, clockSteps, pollVars, token, disk, issued, saveFailed,
                   lastClear>>

\* the caller of the operation has its result or its error
ApiRelease ==
    /\ api.pc \in {"done", "failed"}
    /\ api' = IdleApi
    /\ UNCHANGED <<now, clockSteps, pollVars, authVars>>

\* ------------------------------------------------------ specifications
QuietAuth ==
    /\ token = NoToken /\ disk = Absent /\ issued = 1
    /\ callers = [c \in Callers |-> IdleCaller]
    /\ saveFailed = FALSE
    /\ lastClear = NoClear

QuietApi == api = IdleApi

QuietPlatform == PlatformInit /\ adaptive = TRUE

\* the token manager as constructed: the cached token is loaded from disk
AuthInit ==
    /\ now = StartTime
    /\ clockSteps = 0
    /\ disk \in InitialDisks
    /\ token = loadToken(disk)
    /\ issued = 1
    /\ callers = [c \in Callers |-> IdleCaller]
    /\ saveFailed = FALSE
    /\ lastClear = NoClear
    /\ QuietPlatform
    /\ QuietApi

AuthNext ==
    \/ \E c \in Callers : GetAccessToken(c)
    \/ \E c \in Callers : ForceRefresh(c)
    \/ \E c \in Callers, exp \in ExpiresIn, r \in BOOLEAN, w \in BOOLEAN :
          RefreshOk(c, exp, r, w)
    \/ \E c \in Callers, st \in TokenFailures : RefreshFail(c, st)
    \/ \E c \in Callers, exp \in ExpiresIn, r \in BOOLEAN, w \in BOOLEAN :
          PasswordOk(c, exp, r, w)
    \/ \E c \in Callers, st \in TokenFailures : PasswordFail(c, st)
    \/ \E u \in BOOLEAN : ClearToken(u)
    \/ \E c \in Callers : Release(c)
    \/ AuthClock

AuthSpec == AuthInit /\ [][AuthNext]_vars

\* the client as constructed by discoverSites, with its token manager
ApiInit == AuthInit

ApiNext ==
    \/ ApiRequest
    \/ ApiSend
    \/ ApiAuthFailed
    \/ ApiRespondOk
    \/ \E st \in FailureOutcomes : ApiRetry(st)
    \/ \E st \in FailureOutcomes : ApiFail(st)
    \/ \E st \in FailureOutcomes : ApiUnauthorized(st)
    \/ ApiForced
    \/ ApiForceFailed
    \/ ApiReplay
    \/ ApiRelease
    \/ \E exp \in ExpiresIn, r \in BOOLEAN, w \in BOOLEAN :
          RefreshOk(ApiCaller, exp, r, w)
    \/ \E st \in TokenFailures : RefreshFail(ApiCaller, st)
    \/ \E exp \in ExpiresIn, r \in BOOLEAN, w \in BOOLEAN :
          PasswordOk(ApiCaller, exp, r, w)
    \/ \E st \in TokenFailures : PasswordFail(ApiCaller, st)

ApiSpec == ApiInit /\ [][ApiNext]_vars

PollInit ==
    /\ now = StartTime
    /\ clockSteps = 0
    /\ PlatformInit
    /\ QuietAuth
    /\ QuietApi

PollNext ==
    \/ DidFinishLaunching
    \/ \E n \in 1..MaxSites : DiscoverOk(n)
    \/ DiscoverEmpty
    \/ DiscoverFail
    \/ DiscoverRetry
    \/ StartPolling
    \/ StopPolling
    \/ \E h \in TimerIds : TimerFire(h)
    \/ \E t \in TickIds, lvl \in PolledLevels : FetchOk(t, lvl)
    \/ \E t \in TickIds : FetchFail(t)
    \/ PollClock

PollSpec == PollInit /\ [][PollNext]_vars

\* the platform driven by the host only: startPolling is private and is
\* called by discoverSites and restartPolling alone
DiscoveryNext ==
    \/ DidFinishLaunching
    \/ \E n \in 1..MaxSites : DiscoverOk(n)
    \/ DiscoverEmpty
    \/ DiscoverFail
    \/ DiscoverRetry
    \/ StopPolling
    \/ \E h \in TimerIds : TimerFire(h)
    \/ \E t \in TickIds, lvl \in PolledLevels : FetchOk(t, lvl)
    \/ \E t \in TickIds : FetchFail(t)
    \/ PollClock

DiscoverySpec == PollInit /\ [][DiscoveryNext]_vars

\* the platform with the host's shutdown event
ShutdownNext == PollNext \/ Shutdown

ShutdownSpec == PollInit /\ [][ShutdownNext]_vars

\* the accessory of OwnSite on the bus: discovery, polling ticks at the
\* fixed base cadence, HomeKit reads and destroy()
AccessoryInit == PollInit /\ ~adaptive

AccessoryNext ==
    \/ DidFinishLaunching
    \/ \E n \in 1..MaxSites : DiscoverOk(n)
    \/ \E h \in TimerIds : TimerFire(h)
    \/ \E t \in TickIds, lvl \in PolledLevels : FetchOk(t, lvl)
    \/ \E t \in TickIds : FetchFail(t)
    \/ PollClock
    \/ Destroy
    \/ GetCurrentState
    \/ GetStatusFault
    \/ ReadReturn

AccessorySpec == AccessoryInit /\ [][AccessoryNext]_vars

\* the accessory of OwnSite with HomeKit writing its target state while the
\* polling loop publishes snapshots
SetNext ==
    \/ DidFinishLaunching
    \/ \E n \in 1..MaxSites : DiscoverOk(n)
    \/ \E h \in TimerIds : TimerFire(h)
    \/ \E t \in TickIds, lvl \in PolledLevels : FetchOk(t, lvl)
    \/ \E t \in TickIds : FetchFail(t)
    \/ PollClock
    \/ \E v \in TargetStates : SetTargetState(v)
    \/ SetOk
    \/ SetFail
    \/ SetReturn

SetSpec == AccessoryInit /\ [][SetNext]_vars

\* the administrative http server, constructed with any of the tokens and
\* started on a port other than 0
HttpInit ==
    /\ now = StartTime
    /\ clockSteps = 0
    /\ adaptive = TRUE
    /\ discovery = "init" /\ retryAt = 0
    /\ accessories = <<>> /\ pollingInterval = NoTimer
    /\ timers = [h \in TimerIds |-> 0]
    /\ lastStateChange = 0
    /\ previousStates = [s \in SiteIds |-> NoLevel]
    /\ isFastPolling = FALSE
    /\ ticks = [t \in TickIds |-> 0]
    /\ published = [t \in TickIds |-> {}]
    /\ pollOp = NoOp
    /\ listeners = {} /\ instance = NoInstance /\ shutdown = FALSE
    /\ readOp = NoRead /\ setOp = NoSet
    /\ \E tok \in HttpTokens : http = [NoHttp EXCEPT !.token = tok]
    /\ QuietAuth
    /\ QuietApi

HttpNext ==
    \/ \E m \in HttpMethods, u \in HttpUrls, a \in AuthHeaders :
          HttpRequest(m, u, a)
    \/ HttpDisarmOk
    \/ HttpDisarmFail
    \/ HttpEnd

HttpSpec == HttpInit /\ [][HttpNext]_vars

\* ------------------------------------------------- scheduler properties

\* the step is a successful fetch made with adaptive polling enabled
FetchedAdaptive == pollOp'.op = "fetchOk" /\ adaptive

\* ... and the level it stored for a site differs from the one recorded for
\* that site before
ObservedChange ==
    \E s \in SiteIds : /\ previousStates[s] # NoLevel
                       /\ previousStates'[s] # previousStates[s]

\* the timer held in this.pollingInterval runs at interval d
TimerRunsAt(d) == pollingInterval # NoTimer /\ timers[pollingInterval] = d

\* the timer and its handle are untouched by the step
TimerUntouched == timers' = timers /\ pollingInterval' = pollingInterval

\* C3: with adaptive polling enabled, a successful fetch records
\* lastStateChange = now and puts the scheduler in fast cadence exactly when
\* a previous level is recorded for the site and differs from the observed
\* one; if the scheduler was not fast before, the timer is restarted at the
\* fast interval.  A first observation (no previous level) records no
\* transition and never enters fast cadence.
C3_SwitchToFast ==
    [][FetchedAdaptive =>
         IF ObservedChange
         THEN /\ lastStateChange' = now
              /\ isFastPolling'
              /\ ~isFastPolling => (pollOp'.restarted /\ TimerRunsAt(FastInterval)')
         ELSE /\ lastStateChange' = lastStateChange
              /\ isFastPolling' => isFastPolling
      ]_vars

\* a change has just been observed in slow cadence
C3_Witness ==
    /\ pollOp.op = "fetchOk" /\ adaptive
    /\ pollOp.changed /\ ~pollOp.wasFast
    /\ isFastPolling /\ lastStateChange = now /\ TimerRunsAt(FastInterval)

\* C4: in fast cadence, the first successful fetch that observes no level
\* change at a time when now - lastStateChange >= fastDuration switches the
\* scheduler back to slow cadence and restarts the timer at the base interval.
C4_ReturnToSlow ==
    [][(FetchedAdaptive /\ ~ObservedChange /\ isFastPolling
          /\ now - lastStateChange >= FastDuration)
       => (~isFastPolling' /\ pollOp'.restarted /\ TimerRunsAt(BaseInterval)')
      ]_vars

\* a fetch without change has just ended a fast window exactly fastDuration
\* after the last change
C4_Witness ==
    /\ pollOp.op = "fetchOk" /\ adaptive /\ pollOp.wasFast /\ pollOp.restarted
    /\ ~pollOp.changed
    /\ now - lastStateChange = FastDuration
    /\ ~isFastPolling /\ TimerRunsAt(BaseInterval)

\* C5: a level change observed while already in fast cadence resets
\* lastStateChange to the time of that observation and leaves the timer
\* alone, and the scheduler leaves fast cadence only when fastDuration has
\* elapsed since the lastStateChange so recorded.
C5_FlapReextension ==
    [][/\ (FetchedAdaptive /\ ObservedChange /\ isFastPolling)
            => (lastStateChange' = now /\ isFastPolling' /\ TimerUntouched)
       /\ (isFastPolling /\ ~isFastPolling')
            => (lastStateChange' = lastStateChange
                /\ now - lastStateChange >= FastDuration)
      ]_vars

\* a change has just been observed in fast cadence
C5_Witness ==
    /\ pollOp.op = "fetchOk" /\ adaptive /\ pollOp.wasFast /\ pollOp.changed
    /\ isFastPolling /\ lastStateChange = now /\ TimerRunsAt(FastInterval)

\* at most one polling timer is live, and it is the one in this.pollingInterval
OneTimer == Cardinality(LiveTimers) <= 1 /\ LiveTimers \subseteq {pollingInterval}

\* C6: at most one polling timer is live in every reachable state, and
\* startPolling on an active loop leaves the timers as they were.
C6_SingleTimer ==
    [][/\ OneTimer'
       /\ (pollOp'.op = "startPolling" /\ pollingInterval # NoTimer)
            => TimerUntouched
      ]_vars

\* startPolling has just been called on an active loop
C6_Witness ==
    /\ pollOp.op = "startPolling" /\ pollingInterval # NoTimer
    /\ Cardinality(LiveTimers) = 1
    /\ \E t \in TickIds : ticks[t] # 0

\* C7: once stopPolling has left no timer active, a timer becomes active
\* again only by an explicit startPolling call (discoverSites makes the
\* first one); a tick in flight never re-arms it.
C7_StopIsFinal ==
    [][(pollingInterval = NoTimer /\ pollingInterval' # NoTimer)
       => pollOp'.op \in {"startPolling", "discoverOk"}
      ]_vars

\* C8: when a fetch of a tick fails, every other tracked site has still been
\* fetched and published by the time that tick ends.
C8_PerSiteIsolation ==
    [][\A t \in TickIds :
         (pollOp'.op = "fetchFail" /\ ticks[t] # 0 /\ ticks'[t] = 0)
         => \A i \in 1..Len(accessories) :
               i # ticks[t] => i \in published[t]
      ]_vars

\* C9: a failed fetch is swallowed by the tick: nothing is thrown out of
\* pollStatus, and the timer and the cadence state are what they were.
C9_LoopSurvivesErrors ==
    [][pollOp'.op = "fetchFail" =>
         /\ ~pollOp'.threw
         /\ TimerUntouched
         /\ isFastPolling' = isFastPolling
         /\ lastStateChange' = lastStateChange
         /\ previousStates' = previousStates
      ]_vars

\* a fetch has just failed in fast cadence; the timer is live and can fire again
C9_Witness ==
    /\ pollOp.op = "fetchFail" /\ pollOp.wasFast /\ isFastPolling
    /\ pollingInterval # NoTimer /\ ENABLED TimerFire(pollingInterval)

\* the step is a fetch whose cadence decision restarted the timer
CadenceSwitch == pollOp'.op = "fetchOk" /\ pollOp'.restarted

\* no pollStatus invocation is started by the step
NoTickStarted == \A t \in TickIds : ticks[t] = 0 => ticks'[t] = 0

\* C13: a cadence switch cancels the outstanding timer, leaves exactly one
\* timer running at the newly selected interval and starts no immediate poll.
C13_NoForcedTick ==
    [][CadenceSwitch =>
         /\ Cardinality(LiveTimers') = 1
         /\ isFastPolling' => TimerRunsAt(FastInterval)'
         /\ ~isFastPolling' => TimerRunsAt(BaseInterval)'
         /\ NoTickStarted
      ]_vars

\* the fast window opened by the last recorded transition is still running
InFastWindow == now - lastStateChange < FastDuration

\* C14 as stated: in every reachable state the scheduler is in fast cadence
\* exactly when now - lastStateChange < fastDuration.
C14_FastIffInWindow == isFastPolling <=> InFastWindow

\* C14, amended: in every reachable state the scheduler is in fast cadence
\* while now - lastStateChange < fastDuration, and right after every
\* successful fetch with adaptive polling enabled it is in fast cadence
\* exactly when now - lastStateChange < fastDuration (between fetches the
\* fast cadence outlasts the window until the next successful fetch).
C14_FastWhileInWindow ==
    /\ InFastWindow => isFastPolling
    /\ (pollOp.op = "fetchOk" /\ adaptive) => (isFastPolling <=> InFastWindow)

\* a fetch without change has just left the scheduler in fast cadence, part
\* of the window already elapsed
C14_Witness ==
    /\ pollOp.op = "fetchOk" /\ adaptive /\ ~pollOp.changed /\ pollOp.wasFast
    /\ isFastPolling /\ InFastWindow /\ now > lastStateChange

\* the handler registered by the constructor of the accessory is on the bus
Subscribed == Handler(instance.site, "constructor") \in listeners

\* C15: every successful fetch of a polling tick emits exactly one
\* siteUpdated event, whether or not the level changed or the cadence
\* switched: the event carries the fetched site and level, so the accessory
\* of that site holds that level with lastUpdate = now afterwards and an
\* accessory of another site is untouched; a failed fetch emits no event
\* and leaves the accessory as it was.
C15_PublishPerFetch ==
    [][/\ pollOp'.op = "fetchOk" =>
            /\ pollOp'.emits = 1
            /\ adaptive => previousStates'[pollOp'.site] = pollOp'.level
            /\ IF Subscribed /\ pollOp'.site = instance.site
               THEN instance'.level = pollOp'.level /\ instance'.lastUpdate = now
               ELSE instance' = instance
       /\ pollOp'.op = "fetchFail" =>
            (pollOp'.emits = 0 /\ instance' = instance)
      ]_vars

\* a fetch that observed no change and switched no cadence has just
\* published the level to the accessory
C15_Witness ==
    /\ pollOp.op = "fetchOk" /\ pollOp.emits = 1
    /\ ~pollOp.changed /\ ~pollOp.restarted
    /\ pollOp.site = instance.site
    /\ instance.level = pollOp.level /\ instance.lastUpdate = now
    /\ clockSteps > 0

\* C16: with adaptive polling disabled every timer runs at the base
\* interval, the scheduler is never in fast cadence and records no
\* transition, no fetch restarts the timer, and every successful fetch
\* still emits its siteUpdated event.
C16_AdaptiveDisabled ==
    ~adaptive =>
        /\ \A h \in TimerIds : timers[h] \in {0, BaseInterval}
        /\ ~isFastPolling /\ lastStateChange = 0
        /\ pollOp.op = "fetchOk" =>
              (~pollOp.changed /\ ~pollOp.restarted /\ pollOp.emits = 1)

\* with adaptive polling disabled a fetch has just published a level other
\* than the discovered one while another tick is in flight, and the timer
\* still runs at the base interval
C16_Witness ==
    /\ ~adaptive /\ pollOp.op = "fetchOk" /\ pollOp.emits = 1
    /\ pollOp.site = instance.site
    /\ instance.level # DiscoveredLevel /\ instance.lastUpdate = now
    /\ \E t \in TickIds : ticks[t] # 0
    /\ TimerRunsAt(BaseInterval)

\* C17: once destroy() has returned, the handler the accessory registered
\* in its constructor is no longer on the bus.
C17_DestroyUnsubscribes == instance.destroyed => ~Subscribed

\* C18: the shutdown handler leaves no timer and no subscription, and no
\* subscriber handler is invoked by any fetch that completes after shutdown.
C18_NoHandlerAfterShutdown ==
    /\ pollOp.op = "shutdown" =>
          (pollingInterval = NoTimer /\ LiveTimers = {} /\ listeners = {})
    /\ (shutdown /\ pollOp.op = "fetchOk") => pollOp.delivered = 0

\* an in-flight fetch has just resolved or failed
TickAdvanced == \E t \in TickIds : ticks[t] # 0 /\ ticks'[t] # ticks[t]

\* the step emits siteUpdated while the accessory is subscribed
Received == TickAdvanced /\ pollOp'.op = "fetchOk" /\ Subscribed

\* C19: an accessory that receives siteUpdated for its own site takes the
\* snapshot, sets lastUpdate to now, clears its fault state and shows the
\* new level on its characteristics; an event for another site leaves the
\* accessory entirely unchanged.
C19_SubscriberUpdate ==
    [][Received =>
         IF pollOp'.site = instance.site
         THEN instance' =
                [instance EXCEPT
                   !.level = pollOp'.level,
                   !.lastUpdate = now,
                   !.isReachable = TRUE,
                   !.fault = "NO_FAULT",
                   !.current = somfyToHomekitCurrentState(pollOp'.level),
                   !.target = somfyToHomekitTargetState(pollOp'.level)]
         ELSE instance' = instance
      ]_vars

\* an update for its own site has just reached an accessory that a stale
\* read had marked unreachable
C19_Witness ==
    /\ pollOp.op = "fetchOk" /\ pollOp.site = instance.site /\ Subscribed
    /\ readOp.op = "getCurrentState" /\ readOp.raised
    /\ instance.level = "armed" /\ instance.lastUpdate = now
    /\ instance.isReachable /\ instance.fault = "NO_FAULT"

\* a HomeKit read is made by the step
ReadStep == readOp = NoRead /\ readOp' # NoRead

\* the accessory has no update, or one older than 60000 ms
Outdated == instance.lastUpdate = 0 \/ now - instance.lastUpdate > 60000

\* C20: a read of an accessory without update, or with an update older than
\* 60000 ms, reports GENERAL_FAULT (getStatusFault) or raises
\* (getCurrentState); with an update at most 60000 ms old getStatusFault
\* reports NO_FAULT and getCurrentState returns the mapped cached level.
C20_Staleness ==
    [][ReadStep =>
         /\ readOp'.op = "getStatusFault" =>
               readOp'.value = IF Outdated THEN "GENERAL_FAULT" ELSE "NO_FAULT"
         /\ readOp'.op = "getCurrentState" =>
               IF Outdated THEN readOp'.raised
               ELSE /\ ~readOp'.raised
                    /\ readOp'.value = somfyToHomekitCurrentState(instance.level)
      ]_vars

\* getStatusFault has just reported a fault for an update that has aged
\* beyond the threshold
C20_Witness ==
    /\ readOp.op = "getStatusFault" /\ readOp.value = "GENERAL_FAULT"
    /\ instance.lastUpdate # 0 /\ now - instance.lastUpdate > 60000

\* the remote call of the setTargetState in progress fails / succeeds in
\* the step
SetFailed == setOp.pc = "sent" /\ setOp'.remote = "failed"

SetSucceeded == setOp.pc = "sent" /\ setOp'.remote = "ok"

\* C21: when the setSecurityLevel call made by setTargetState fails,
\* setTargetState raises, leaves the cached security level as it was and sets
\* the target-state characteristic to the mapping of that cached level; when
\* the call succeeds the cached level becomes the requested level and nothing
\* is raised; no other step of setTargetState changes the cached level (a
\* change made while a call is in progress comes from a polled update).
C21_SetFailure ==
    [][/\ SetFailed =>
            /\ setOp'.raised
            /\ instance'.level = instance.level
            /\ instance'.target = somfyToHomekitTargetState(instance.level)
       /\ SetSucceeded =>
            (~setOp'.raised /\ instance'.level = homekitToSomfyLevel(setOp.value))
       /\ (instance # NoInstance /\ instance'.level # instance.level)
            => (SetSucceeded \/ TickAdvanced)
      ]_vars

\* a write of a level other than the cached one has failed: the call has
\* raised, the cache holds the level from before the call and the target
\* state shows it
C21_Witness ==
    /\ setOp.pc = "returned" /\ setOp.remote = "failed" /\ setOp.raised
    /\ setOp.level # setOp.before
    /\ instance.level = setOp.before
    /\ instance.target = somfyToHomekitTargetState(setOp.before)

\* C22: armed maps to AWAY_ARM, partial to STAY_ARM and disarmed to
\* DISARMED (current) / DISARM (target); converting a level to a target state
\* and back with homekitToSomfyLevel gives the level again; and the level
\* that setTargetState(t) sends maps back to t, for each of the three target
\* states.
C22_MappingRoundTrip ==
    /\ somfyToHomekitCurrentState("armed") = "AWAY_ARM"
    /\ somfyToHomekitTargetState("armed") = "AWAY_ARM"
    /\ somfyToHomekitCurrentState("partial") = "STAY_ARM"
    /\ somfyToHomekitTargetState("partial") = "STAY_ARM"
    /\ somfyToHomekitCurrentState("disarmed") = "DISARMED"
    /\ somfyToHomekitTargetState("disarmed") = "DISARM"
    /\ \A l \in Levels : homekitToSomfyLevel(somfyToHomekitTargetState(l)) = l
    /\ setOp.pc # "idle" =>
          /\ setOp.value \in TargetStates
          /\ setOp.level \in Levels
          /\ somfyToHomekitTargetState(setOp.level) = setOp.value

\* setTargetState(STAY_ARM) has sent 'partial'
C22_Witness ==
    setOp.pc = "sent" /\ setOp.value = "STAY_ARM" /\ setOp.level = "partial"

\* the polling loop has been started: a timer is held or live, or a
\* pollStatus invocation is running
Polling ==
    \/ pollingInterval # NoTimer
    \/ LiveTimers # {}
    \/ \E t \in TickIds : ticks[t] # 0

\* the getSites call of the discovery attempt in progress fails in the step
DiscoveryFailed == discovery = "pending" /\ discovery' = "retry"

\* a discovery attempt starts in the step
DiscoveryStarted == discovery # "pending" /\ discovery' = "pending"

\* C24: polling is started only once a discovery attempt has listed the
\* sites and registered at least one; a discovery attempt whose getSites call
\* fails starts no polling and sets a timeout due 60000 ms later, and the
\* next attempt starts when that timeout fires and not before, after every
\* failed attempt.
C24_DiscoveryGatesPolling ==
    [][/\ Polling' => (discovery' = "done" /\ Len(accessories') >= 1)
       /\ DiscoveryFailed => (~Polling' /\ retryAt' = now + 60000)
       /\ (DiscoveryStarted /\ discovery # "init")
            => (discovery = "retry" /\ now >= retryAt /\ retryAt >= StartTime + 60000)
       /\ discovery = "retry" => discovery' \in {"retry", "pending"}
      ]_vars

\* a discovery attempt failed, the attempt made when the timeout fired has
\* registered sites, and polling has been started by it
C24_Witness ==
    /\ pollOp.op = "discoverOk" /\ retryAt # 0 /\ now >= retryAt
    /\ Polling /\ Len(accessories) >= 1

\* ------------------------------------------------- http server properties

\* the request being served is POST /disarm
IsDisarmRequest == http.req.method = "POST" /\ http.req.url = "/disarm"

\* no token is configured (none given, or the empty string)
NoTokenConfigured == http.token \in {Undefined, ""}

\* C23: the server calls the disarm callback for a request if and only if
\* the request is POST /disarm and either no token is configured or the
\* Authorization header is exactly 'Bearer <token>'; a POST /disarm with a
\* missing or different header is answered 401, any request that is neither
\* OPTIONS nor POST /disarm is answered 404, and neither calls the callback.
C23_DisarmAuthorization ==
    http.pc # "idle" =>
      /\ http.calls = 1 <=>
            (IsDisarmRequest /\
               (NoTokenConfigured \/ http.req.auth = "Bearer " \o http.token))
      /\ http.calls \in {0, 1}
      /\ (IsDisarmRequest /\ ~NoTokenConfigured
             /\ http.req.auth # "Bearer " \o http.token)
            => (http.status = 401 /\ http.calls = 0)
      /\ (~IsDisarmRequest /\ http.req.method # "OPTIONS")
            => (http.status = 404 /\ http.calls = 0)
      /\ http.status \in {401, 404} => http.calls = 0

\* a POST /disarm without Authorization header has been answered 401 by a
\* server that has a token
C23_Witness ==
    /\ http.pc = "answered" /\ IsDisarmRequest /\ http.token = "s3cret"
    /\ http.req.auth = Undefined /\ http.status = 401 /\ http.calls = 0

\* ---------------------------------------------- token manager properties

\* the refresh-token grant of caller c is answered 400 or 401 in this step
RefreshRejected(c) ==
    /\ callers[c].pc = "refresh" /\ callers'[c].pc # "refresh"
    /\ callers'[c].status \in {400, 401}

\* the password grant that caller c posted after such an answer succeeds in this step
FallbackGranted(c) ==
    callers[c].pc = "password" /\ callers[c].fallback /\ callers'[c].pc = "returned"

\* after the step the manager holds a credential issued in this step, and
\* getAccessToken hands its access token to caller c
NewCredentialHeld(c) ==
    /\ token' # token /\ token'.access > issued /\ token'.issuedAt = now
    /\ callers'[c].op = "getAccessToken" => callers'[c].result = token'.access

\* C1 (as stated): a refresh grant answered 400 or 401 falls through to a
\* password grant, and when that grant succeeds getAccessToken returns the
\* new access token and the new record replaces the old one in memory and
\* in the persisted file.
C1_RefreshFallbackPersisted ==
    [][\A c \in Callers :
         /\ RefreshRejected(c) => (callers'[c].pc = "password" /\ callers'[c].reqs = 2)
         /\ FallbackGranted(c) => (NewCredentialHeld(c) /\ disk' = Stored(token'))
      ]_vars

\* C1 (amended): as above, but the persisted file holds the new record only
\* if saveToken's write succeeded; when the write fails (which is logged) the
\* file is left as it was.
C1_RefreshFallback ==
    [][\A c \in Callers :
         /\ RefreshRejected(c) => (callers'[c].pc = "password" /\ callers'[c].reqs = 2)
         /\ FallbackGranted(c) =>
               /\ NewCredentialHeld(c)
               /\ disk' = IF saveFailed' THEN disk ELSE Stored(token')
      ]_vars

\* getAccessToken has returned the token of a fallback password grant, and
\* that token is the one in memory and on disk
C1_Witness ==
    \E c \in Callers :
        /\ callers[c].op = "getAccessToken" /\ callers[c].pc = "returned"
        /\ callers[c].fallback /\ callers[c].reqs = 2
        /\ callers[c].result = token.access /\ token.access > 1
        /\ disk = Stored(token) /\ ~saveFailed

\* C10: a getAccessToken call made while a token with an issuedAt is held
\* posts a token request when now >= issuedAt + expires_in*1000 - 60000, and
\* posts none and returns the cached access token when
\* now < issuedAt + expires_in*1000 - 60001.
C10_TokenBuffer ==
    [][\A c \in Callers :
         (/\ callers[c].pc = "idle" /\ callers'[c].pc # "idle"
          /\ callers'[c].op = "getAccessToken"
          /\ token # NoToken /\ token.issuedAt # 0)
         => LET expiresAt == token.issuedAt + token.expires_in * 1000
            IN /\ now >= expiresAt - 60000
                    => (callers'[c].pc \in {"refresh", "password"}
                        /\ callers'[c].reqs = 1)
               /\ now < expiresAt - 60001
                    => (callers'[c].pc = "returned" /\ callers'[c].reqs = 0
                        /\ callers'[c].result = token.access)
      ]_vars

\* a getAccessToken call made exactly at issuedAt + expires_in*1000 - 60000
\* has a token request in flight
C10_Witness ==
    \E c \in Callers :
        /\ callers[c].op = "getAccessToken" /\ callers[c].reqs = 1
        /\ callers[c].pc \in {"refresh", "password"}
        /\ token # NoToken /\ token.issuedAt # 0
        /\ now = token.issuedAt + token.expires_in * 1000 - 60000

\* clearToken has just returned and no other operation has been called since
JustCleared == lastClear.done /\ lastClear.next = 0

\* the getAccessToken call made right after clearToken by caller c has
\* posted a password grant and no refresh-token grant
PasswordGrantOnly(c) ==
    /\ callers[c].op = "getAccessToken"
    /\ callers[c].pc = "password"
    /\ callers[c].reqs = 1 /\ callers[c].sent = 0 /\ ~callers[c].fallback

\* C11 as stated: clearToken leaves no cached token and no credential file,
\* and the getAccessToken call made right after it posts a password grant
\* and no refresh-token grant.
C11_ClearRemovesFile ==
    /\ JustCleared => (token = NoToken /\ disk = Absent)
    /\ \A c \in Callers : lastClear.next = c => PasswordGrantOnly(c)

\* C11, amended: clearToken leaves no cached token, and no credential file
\* unless unlinking it failed (the file then stays); the getAccessToken call
\* made right after it posts a password grant and no refresh-token grant,
\* whether or not a refresh token was held before the clear.
C11_ClearRoundTrip ==
    /\ JustCleared =>
         /\ token = NoToken
         /\ IF lastClear.unlinkFailed THEN disk.state # "absent" ELSE disk = Absent
    /\ \A c \in Callers : lastClear.next = c => PasswordGrantOnly(c)

\* a refresh token was held, clearToken removed it and the file, and the
\* getAccessToken call that followed has a password grant in flight
C11_Witness ==
    \E c \in Callers :
        /\ lastClear.next = c /\ lastClear.hadRefresh /\ ~lastClear.unlinkFailed
        /\ token = NoToken /\ disk = Absent
        /\ callers[c].pc = "password"

\* caller c calls the operation `opname` of the token manager in the step
CallStep(c, opname) ==
    /\ callers[c].pc = "idle" /\ callers'[c].pc # "idle"
    /\ callers'[c].op = opname

\* no token is held, or the held one has reached its 60 s expiry buffer
NeedsCredential ==
    \/ token = NoToken
    \/ token.issuedAt = 0
    \/ now >= token.issuedAt + token.expires_in * 1000 - 60000

\* a refresh token is held
RefreshTokenHeld == token # NoToken /\ token.refresh # 0

\* after the step caller c has posted exactly one token request, with the
\* refresh grant (sending the held refresh token) if a refresh token is
\* held and with the password grant otherwise
PostsByHeldToken(c) ==
    /\ callers'[c].reqs = 1
    /\ IF RefreshTokenHeld
       THEN callers'[c].pc = "refresh" /\ callers'[c].sent = token.refresh
       ELSE callers'[c].pc = "password" /\ callers'[c].sent = 0

\* C25: a getAccessToken call made when no token is held or the held token
\* has reached the 60 s buffer posts a refresh-token grant if and only if the
\* held token has a refresh token, and a password grant otherwise;
\* refreshToken without a refresh token held posts the password grant.
C25_GrantSelection ==
    [][/\ \A c \in Callers :
            (CallStep(c, "getAccessToken") /\ NeedsCredential)
                => PostsByHeldToken(c)
       /\ ~RefreshTokenHeld => refreshTokenGrant(token) = "password"
      ]_vars

\* getAccessToken has posted a refresh grant for a held token that has
\* reached its expiry buffer
C25_Witness ==
    \E c \in Callers :
        /\ callers[c].op = "getAccessToken" /\ callers[c].pc = "refresh"
        /\ callers[c].reqs = 1
        /\ RefreshTokenHeld /\ callers[c].sent = token.refresh
        /\ token.issuedAt # 0
        /\ now >= token.issuedAt + token.expires_in * 1000 - 60000

\* C26: every forceRefresh call posts a token request, whatever the expiry
\* of the held token: the refresh grant when a refresh token is held, the
\* password grant otherwise.
C26_ForceRefreshUnconditional ==
    [][\A c \in Callers : CallStep(c, "forceRefresh") => PostsByHeldToken(c)]_vars

\* a forceRefresh call has a request in flight although the held token has
\* not reached its expiry buffer
C26_Witness ==
    \E c \in Callers :
        /\ callers[c].op = "forceRefresh" /\ callers[c].reqs = 1
        /\ callers[c].pc \in {"refresh", "password"}
        /\ token # NoToken /\ token.issuedAt # 0
        /\ now < token.issuedAt + token.expires_in * 1000 - 60000

\* C27: one call of getAccessToken or forceRefresh posts at most two token
\* requests, and a second one only as the password grant that follows a
\* rejected refresh grant; a failed password grant ends the call.
C27_BoundedTokenRequests ==
    \A c \in Callers :
        /\ callers[c].reqs <= 2
        /\ callers[c].reqs = 2 => (callers[c].fallback /\ callers[c].sent # 0)
        /\ callers[c].pc = "refresh" => callers[c].reqs = 1
        /\ callers[c].pc = "password" =>
              callers[c].reqs = (IF callers[c].fallback THEN 2 ELSE 1)

\* a call has raised after its refresh grant was rejected and the password
\* grant that followed failed
C27_Witness ==
    \E c \in Callers :
        /\ callers[c].pc = "raised" /\ callers[c].reqs = 2
        /\ callers[c].fallback

\* the refresh grant (password grant) of caller c fails in the step
RefreshGrantFailed(c) ==
    callers[c].pc = "refresh" /\ callers'[c].pc \notin {"refresh", "returned"}

PasswordGrantFailed(c) ==
    callers[c].pc = "password" /\ callers'[c].pc \notin {"password", "returned"}

\* caller c has been raised a typed error with the status and the payload
\* of the failed request (none of the two when there was no response)
TypedErrorRaised(c) ==
    /\ callers'[c].pc = "raised" /\ callers'[c].typed
    /\ callers'[c].status \in TokenFailures
    /\ callers'[c].raw = (IF callers'[c].status = 0 THEN "none" ELSE "body")

\* C28: a refresh grant that fails with anything but 400 or 401 is followed
\* by no password grant: the call raises a typed error carrying the status
\* and the payload of the response; a failed password grant raises a typed
\* error carrying status and payload as well.
C28_FailuresPropagate ==
    [][\A c \in Callers :
         /\ (RefreshGrantFailed(c) /\ callers'[c].status \notin {400, 401})
               => (TypedErrorRaised(c) /\ callers'[c].reqs = 1
                   /\ ~callers'[c].fallback)
         /\ PasswordGrantFailed(c)
               => (TypedErrorRaised(c) /\ callers'[c].reqs = callers[c].reqs)
      ]_vars

\* getAccessToken has raised the error of a refresh grant answered 500
C28_Witness ==
    \E c \in Callers :
        /\ callers[c].op = "getAccessToken" /\ callers[c].pc = "raised"
        /\ callers[c].status = 500 /\ callers[c].reqs = 1
        /\ callers[c].typed /\ callers[c].raw = "body"

\* the token endpoint issues a credential to caller c in the step
Acquired(c) == issued' = issued + 1 /\ callers'[c] # callers[c]

\* C29: after every successful acquisition or refresh the new record is
\* held in memory and handed to the caller, and it is written to the store;
\* when the write fails the failure is logged only: the new record is still
\* the one held and getAccessToken still returns its access token.
C29_PersistFailsSoft ==
    [][\A c \in Callers :
         Acquired(c) =>
           /\ token'.access = issued + 1 /\ token'.issuedAt = now
           /\ callers'[c].pc = "returned"
           /\ callers'[c].op = "getAccessToken"
                 => callers'[c].result = token'.access
           /\ ~saveFailed' => disk' = Stored(token')
      ]_vars

\* getAccessToken has returned the access token of a record whose write to
\* the store failed
C29_Witness ==
    \E c \in Callers :
        /\ callers[c].op = "getAccessToken" /\ callers[c].pc = "returned"
        /\ saveFailed /\ disk # Stored(token)
        /\ token # NoToken /\ callers[c].result = token.access

\* the credential file is missing, unreadable or unparsable
NoUsableFile == disk.state \in {"absent", "corrupt"}

\* C30: a token manager constructed over a missing, unreadable or
\* unparsable credential file holds no credential, and a getAccessToken call
\* made before any credential has been issued to it posts a password grant.
C30_CorruptCacheStartup ==
    /\ NoUsableFile => token = NoToken
    /\ [][\A c \in Callers :
            (CallStep(c, "getAccessToken") /\ issued = 1 /\ NoUsableFile)
              => (callers'[c].pc = "password" /\ callers'[c].reqs = 1
                  /\ callers'[c].sent = 0)
         ]_vars

\* the first getAccessToken of a manager constructed over an unparsable
\* file has its password grant in flight
C30_Witness ==
    \E c \in Callers :
        /\ disk.state = "corrupt" /\ issued = 1 /\ token = NoToken
        /\ callers[c].op = "getAccessToken" /\ callers[c].pc = "password"
        /\ callers[c].reqs = 1 /\ ~callers[c].fallback

\* ----------------------------------------------------- client properties

\* C2: within one client operation a 401 leads to at most one forceRefresh
\* and at most one replay; a replay that is answered 401 again is not
\* followed by a further forceRefresh or a second replay.
C2_ReplayAtMostOnce == api.forces <= 1 /\ api.replays <= 1

\* the remote service has just answered the request in flight and the
\* operation has ended in `outcome`
Answered(outcome) == api.pc = "inflight" /\ api'.pc = outcome

\* C12: a request is re-sent at most MAX_RETRY_ATTEMPTS times, so an
\* operation that meets no 401 makes at most MAX_RETRY_ATTEMPTS + 1 transport
\* attempts; an attempt answered 2xx ends the operation in success whatever
\* failed before it, and the operation raises with a 5xx status only when the
\* attempt that got it was the last one the ceiling allows.
C12_RetryCeiling ==
    [][/\ api'.retryCount <= MAX_RETRY_ATTEMPTS
       /\ api'.forces = 0 => api'.sent <= MAX_RETRY_ATTEMPTS + 1
       /\ Answered("done") => api'.status = 200
       /\ (Answered("failed") /\ api'.status >= 500) =>
             /\ api.retryCount = MAX_RETRY_ATTEMPTS
             /\ api.forces = 0 => api.sent = MAX_RETRY_ATTEMPTS + 1
      ]_vars

\* the fourth attempt of an operation has been answered 503 and the
\* operation has raised with that status
C12_Witness ==
    /\ api.pc = "failed" /\ api.status = 503 /\ api.forces = 0
    /\ api.retryCount = MAX_RETRY_ATTEMPTS
    /\ api.sent = MAX_RETRY_ATTEMPTS + 1

\* a request goes out to the remote service
RequestSent == api'.sent = api.sent + 1

\* C31: every request that is sent (first attempt, retry or replay after a
\* 401) carries the bearer token that getAccessToken returned for this very
\* send; when getAccessToken raises, nothing is sent and the operation fails
\* with the error of the token manager.
C31_NoUnauthenticatedRequest ==
    [][/\ RequestSent =>
             /\ api.pc = "auth"
             /\ callers[ApiCaller].pc = "returned"
             /\ callers[ApiCaller].op = "getAccessToken"
             /\ api'.bearer = callers[ApiCaller].result
             /\ api'.bearer # 0
       /\ (api.pc = "auth" /\ callers[ApiCaller].pc = "raised") =>
             /\ api'.sent = api.sent
             /\ api'.pc \in {"auth", "failed"}
             /\ api'.pc = "failed" =>
                   /\ api'.raised = "token"
                   /\ api'.status = callers[ApiCaller].status
      ]_vars

\* the replay after a 401 is in flight and carries the token that the forced
\* refresh obtained
C31_Witness ==
    /\ api.pc = "inflight" /\ api.replays = 1 /\ api.sent = 2
    /\ api.bearer = token.access /\ api.bearer = issued

\* 4xx answers other than 401
ClientErrors == {st \in FailureOutcomes : st >= 400 /\ st < 500 /\ st # 401}

\* C32: a request answered 4xx other than 401 is not sent again: the answer
\* starts no retry, no forced refresh and no replay, and the operation
\* raises an API error with that status, built from the answer.
C32_ClientErrorNotRetried ==
    [][(api.pc = "inflight" /\ api'.last \in ClientErrors) =>
          /\ api'.pc = "failed"
          /\ api'.raised = "api"
          /\ api'.status = api'.last
          /\ api'.sent = api.sent
          /\ api'.retryCount = api.retryCount
          /\ api'.forces = api.forces
          /\ api'.replays = api.replays
          /\ UNCHANGED authVars
      ]_vars

\* the first attempt of an operation was answered 404 and the operation has
\* raised
C32_Witness ==
    /\ api.pc = "failed" /\ api.status = 404 /\ api.raised = "api"
    /\ api.sent = 1 /\ api.retryCount = 0 /\ api.forces = 0

\* C36: an operation ends after a bounded number of requests also when the
\* remote service answers 401 to every attempt while the token endpoint
\* keeps issuing tokens.  The 401 handling is the only cycle of an operation
\* that no counter of the client cuts, so the operation is bounded exactly
\* if an answer 401 to a replayed request ends it.
C36_TerminatesUnderPersistent401 ==
    [][(api.pc = "inflight" /\ api.replays >= 1 /\ api'.last = 401) =>
          api'.pc \in {"done", "failed"}
      ]_vars

\* the token manager has raised during the handling of a 401
RefreshFailedOn401 ==
    /\ api.pc \in {"forcing", "reauth"}
    /\ callers[ApiCaller].pc = "raised"

\* C37: when forceRefresh, or the getAccessToken after it, raises while a
\* 401 is handled, the request is not replayed and the caller gets the API
\* error of the 401 answer (status 401), not the error of the token manager.
C37_RefreshFailureOn401 ==
    [][RefreshFailedOn401 =>
          /\ api'.sent = api.sent
          /\ api'.replays = api.replays
          /\ api'.pc \in {api.pc, "failed"}
          /\ api'.pc = "failed" =>
                /\ api'.status = 401
                /\ api'.raised = "api"
      ]_vars

\* a 401 was met, the forced refresh was refused with another status, and
\* the operation has raised the error of the 401 answer without a replay
C37_Witness ==
    /\ api.pc = "failed" /\ api.status = 401 /\ api.raised = "api"
    /\ api.forces = 1 /\ api.replays = 0 /\ api.sent = 1

\* ------------------------------------- scheduler properties, timeline

\* the pollStatus invocations that are awaiting a getSite
TicksInProgress == {t \in TickIds : ticks[t] # 0}

\* C33: at most one polling tick is in progress at any time: neither a timer
\* firing nor a cadence switch starts a second tick while an earlier tick is
\* still awaiting a fetch (so the events of a site are published in the
\* order in which their fetches were issued).
C33_SingleTimeline == Cardinality(TicksInProgress) <= 1

\* the step is a fetch of a polling tick that resolved with a site
Fetched == pollOp'.op = "fetchOk"

C35_PerSiteAtomicInOrder ==
    [][\A t \in TickIds :
         /\ (ticks[t] = 0 /\ ticks'[t] # 0) => ticks'[t] = 1
         /\ (ticks[t] # 0 /\ ticks'[t] # ticks[t]) =>
               /\ ticks'[t] \in {0, ticks[t] + 1}
               /\ ticks'[t] = 0 =>
                     (pollOp'.op = "fetchFail" \/ ticks[t] = Len(accessories))
               /\ \A u \in TickIds \ {t} :
                     ticks'[u] = ticks[u] \/ (ticks[u] = 0 /\ ticks'[u] = 1)
               /\ Fetched =>
                     /\ pollOp'.site = accessories[ticks[t]]
                     /\ pollOp'.emits = 1
                     /\ adaptive =>
                           previousStates'[pollOp'.site] = pollOp'.level
                     /\ pollOp'.changed => lastStateChange' = now
                     /\ ticks[t] \in published'[t] \/ ticks'[t] = 0
      ]_vars

\* two sites are tracked, the first site of a tick has been processed and
\* the fetch of its second site is awaited
C35_Witness ==
    /\ Len(accessories) = 2 /\ pollOp.op = "fetchOk"
    /\ pollOp.site = accessories[1]
    /\ \E t \in TickIds : ticks[t] = 2 /\ published[t] = {1}

\* ------------------------------ token manager properties, acquisition

\* the step is one of a call of caller c other than the arrival of a token:
\* the call is made, a grant fails (falling back or raising), or the caller
\* takes its result
NoGrantStep(c) ==
    /\ callers'[c] # callers[c]
    /\ ~(callers[c].pc \in {"refresh", "password"} /\ callers'[c].pc = "returned")

\* C38: a failed acquisition changes nothing: when a refresh grant or a
\* password grant fails, also when the fallback password grant of a rejected
\* refresh fails, the cached record and the credential file are what they
\* were; only a 200 answer of the token endpoint replaces them.
C38_FailedAcquisitionKeepsState ==
    [][\A c \in Callers :
         /\ (RefreshGrantFailed(c) \/ PasswordGrantFailed(c)) =>
               (token' = token /\ disk' = disk /\ issued' = issued)
         /\ NoGrantStep(c) => (token' = token /\ disk' = disk)
      ]_vars

\* a call has raised after its refresh grant was rejected and the fallback
\* password grant failed, and the record loaded at start is still cached and
\* on file
C38_Witness ==
    \E c \in Callers :
        /\ callers[c].pc = "raised" /\ callers[c].fallback
        /\ callers[c].reqs = 2
        /\ token.access = 1 /\ token.refresh = 1 /\ disk = Stored(token)
        /\ issued = 1

\* the callers whose token request is in flight
InFlight == {c \in Callers : callers[c].pc \in {"refresh", "password"}}

\* C39: token acquisition is single-flight: with concurrent getAccessToken
\* and forceRefresh calls at most one token-endpoint request is in flight
\* at any time, and no refresh token is submitted by two requests.
C39_SingleFlight ==
    /\ Cardinality(InFlight) <= 1
    /\ \A c, d \in Callers :
          (c # d /\ callers[c].pc = "refresh" /\ callers[d].pc = "refresh")
             => callers[c].sent # callers[d].sent

\* ------------------------------------- accessory properties, ordering

\* the setTargetState call has succeeded and the cache holds its level
SetHolds ==
    /\ setOp.pc = "returned" /\ setOp.remote = "ok"
    /\ instance.level = setOp.level

\* a getSite that was issued before the setTargetState call completed
\* resolves or fails in the step
OlderFetchEnds == \E t \in setOp.inflight : ticks'[t] # ticks[t]

\* C40: when setTargetState(L) succeeds the cached level becomes L, and a
\* polling fetch that was issued before the call completed does not replace
\* L afterwards: the cached level stays L until an event of a fetch issued
\* after the completion arrives.
C40_SetNotUndoneByOlderPoll ==
    [][/\ SetSucceeded => instance'.level = setOp.level
       /\ (SetHolds /\ OlderFetchEnds) => instance'.level = setOp.level
      ]_vars

====
